---------------------------- MODULE Spec2Model ----------------------------
(***************************************************************************)
(* A model of libpkg/pkg_solve.c: the SAT encoding of a package universe,  *)
(* the pure seed, unit propagation, the DPLL loop, the job emitter and the *)
(* reader of an external solver's output.                                  *)
(*                                                                         *)
(* Variables of the Problem are numbered 1..nvars in variable-table order; *)
(* 0 stands for a NULL pointer.  A unique id is the number of its chain;   *)
(* uid 0 is a unique id that has no chain in the universe.                 *)
(***************************************************************************)
EXTENDS Integers, Sequences, FiniteSets, TLC

\* ------------------------------------------------------------------ bounds
MaxUnits == 3
MaxRels == 1
MaxReqs == 3
MaxTokens == 2

\* ------------------------------------------------------------- helpers
RECURSIVE Reverse(_)
Reverse(s) == IF s = <<>> THEN <<>> ELSE Append(Reverse(Tail(s)), Head(s))

RECURSIVE Flatten(_)
Flatten(ss) == IF ss = <<>> THEN <<>> ELSE Head(ss) \o Flatten(Tail(ss))

RECURSIVE SubsetsUpTo(_, _)
SubsetsUpTo(A, m) ==
  IF m = 0 THEN {{}}
  ELSE LET P == SubsetsUpTo(A, m - 1)
       IN  P \cup {s \cup {a} : s \in P, a \in A}

\* -------------------------------------------------- the universe (input)
\* pkg->type and pkg_conflict->type as the solver reads them
ConflictKinds == <<"remote-local", "remote-remote">>
JobTypes == {"install", "upgrade", "fetch"}

\* the chain numbers of the units, in table order, for every way to cut
\* n units into contiguous chains
RECURSIVE ChainShapes(_)
ChainShapes(n) ==
  IF n = 0 THEN {<<>>}
  ELSE {Append(s, IF s = <<>> THEN 1 ELSE s[Len(s)]) : s \in ChainShapes(n - 1)}
       \cup {Append(s, IF s = <<>> THEN 1 ELSE s[Len(s)] + 1) : s \in ChainShapes(n - 1)}

NChains(chain) == IF chain = <<>> THEN 0 ELSE chain[Len(chain)]

\* what a unit can declare: a dependency on a unique id (0: not in the
\* universe), a conflict with a unique id, a required shlib (one name, libz)
Relations(n, k) ==
  [t : {"dep"}, u : 1..n, uid : 0..k, kind : {""}]
  \cup [t : {"conflict"}, u : 1..n, uid : 1..k, kind : {ConflictKinds[i] : i \in 1..Len(ConflictKinds)}]
  \cup [t : {"require"}, u : 1..n, uid : {0}, kind : {""}]

\* the Provides index of libz: the units that provide it (looked up only
\* when some unit requires it)
Provides(n, rels) ==
  IF \E r \in rels : r.t = "require" THEN SUBSET (1..n) ELSE {{}}

Requests(n) == [t : {"add", "delete"}, u : 1..n]

\* the universes of n units with at most maxrels declarations and maxreqs requests
IsUniverse(u, maxrels, maxreqs) ==
  \E n \in 1..MaxUnits :
    \E c \in ChainShapes(n) :
      \E r \in SubsetsUpTo(Relations(n, NChains(c)), maxrels) :
        \E p \in Provides(n, r), i \in [1..n -> BOOLEAN],
           q \in SubsetsUpTo(Requests(n), maxreqs), j \in JobTypes :
          u = [n |-> n, chain |-> c, inst |-> i, rels |-> r, prov |-> p, reqs |-> q, jtype |-> j]

\* --------------------------------------------- the universe as the code reads it
is_installed(u, v) == u.inst[v]

\* the chain of v: v and its successors (LL_FOREACH from v follows next only)
ChainFrom(u, v) ==
  SelectSeq([i \in 1..u.n |-> i], LAMBDA w : w >= v /\ u.chain[w] = u.chain[v])

\* HASH_FIND_STR(problem->variables_by_uid, uid, var): the chain head, or 0
variables_by_uid(u, uid) ==
  IF \E v \in 1..u.n : u.chain[v] = uid
  THEN CHOOSE v \in 1..u.n : u.chain[v] = uid /\ \A w \in 1..u.n : u.chain[w] = uid => v <= w
  ELSE 0

\* unit->next == NULL && unit->prev == unit: the unit is alone in its chain
chain_single(u, v) == \A w \in 1..u.n : u.chain[w] = u.chain[v] => w = v

\* pkg->deps, pkg->conflicts in iteration order (ascending unique id)
deps_of(u, v) ==
  SelectSeq([i \in 1..(NChains(u.chain) + 1) |-> i - 1],
            LAMBDA d : [t |-> "dep", u |-> v, uid |-> d, kind |-> ""] \in u.rels)

conflicts_of(u, v) ==
  Flatten([c \in 1..NChains(u.chain) |->
    SelectSeq([i \in 1..Len(ConflictKinds) |-> [uid |-> c, type |-> ConflictKinds[i]]],
              LAMBDA x : [t |-> "conflict", u |-> v, uid |-> x.uid, kind |-> x.type] \in u.rels)])

shlibs_required(u, v) ==
  IF [t |-> "require", u |-> v, uid |-> 0, kind |-> ""] \in u.rels THEN <<"libz">> ELSE <<>>

\* HASH_FIND_STR(universe->provides, name): the list of providers, in table order
provides_of(u, name) == SelectSeq([i \in 1..u.n |-> i], LAMBDA w : w \in u.prov)

request_add(u, v) == [t |-> "add", u |-> v] \in u.reqs
request_delete(u, v) == [t |-> "delete", u |-> v] \in u.reqs

\* ------------------------------------------------------------ clause building
pkg_solve_item_new(var) == [var |-> var, inverse |-> FALSE, nitems |-> 0]

RULE_ITEM_PREPEND(items, item) ==
  <<[item EXCEPT !.nitems = IF items # <<>> THEN items[1].nitems + 1 ELSE 1]>> \o items

\* the items of a rule after the literals have been prepended one by one
RECURSIVE PrependAll(_, _)
PrependAll(items, lits) ==
  IF lits = <<>> THEN items
  ELSE PrependAll(RULE_ITEM_PREPEND(items, Head(lits)), Tail(lits))

Lit(var, inverse) == [pkg_solve_item_new(var) EXCEPT !.inverse = inverse]

\* one call of pkg_solve_add_var_rules: the variables the rule is attached
\* to, each with the amount added to its nrules
pkg_solve_add_var_rules(u, var, nrules, iterate_vars) ==
  IF iterate_vars
  THEN [i \in 1..Len(ChainFrom(u, var)) |-> [var |-> ChainFrom(u, var)[i], nrules |-> nrules]]
  ELSE <<[var |-> var, nrules |-> nrules]>>

\* a variant of pkg_solve_add_depend_rule that forgets to attach the rule to
\* the depending variable (the rule is only known to the candidates)
add_depend_rule_unattached(u, var, uid) ==
  LET depvar == variables_by_uid(u, uid)
      chain == ChainFrom(u, depvar)
      cnt == 1 + Len(chain)
  IN  IF depvar = 0 THEN <<>>
      ELSE <<[desc |-> "dependency",
              items |-> PrependAll(<<>>, <<Lit(var, TRUE)>> \o [i \in 1..Len(chain) |-> Lit(chain[i], FALSE)]),
              attach |-> pkg_solve_add_var_rules(u, depvar, cnt, TRUE)]>>

\* a rule: its items in list order, and its attachments in the order made
pkg_solve_add_depend_rule(u, var, uid) ==
  LET depvar == variables_by_uid(u, uid)
      chain == ChainFrom(u, depvar)
      cnt == 1 + Len(chain)
  IN  IF depvar = 0 THEN <<>>
      ELSE <<[desc |-> "dependency",
              items |-> PrependAll(<<>>, <<Lit(var, TRUE)>> \o [i \in 1..Len(chain) |-> Lit(chain[i], FALSE)]),
              attach |-> pkg_solve_add_var_rules(u, depvar, cnt, TRUE)
                         \o pkg_solve_add_var_rules(u, var, cnt, FALSE)]>>

conflict_skipped(u, var, curvar, type) ==
  IF type = "remote-local"
  THEN IF is_installed(u, var) THEN is_installed(u, curvar) ELSE ~is_installed(u, curvar)
  ELSE IF type = "remote-remote"
  THEN is_installed(u, var) \/ is_installed(u, curvar)
  ELSE FALSE

pkg_solve_add_conflict_rule(u, var, conflict) ==
  LET confvar == variables_by_uid(u, conflict.uid)
      kept == SelectSeq(ChainFrom(u, confvar),
                        LAMBDA curvar : ~conflict_skipped(u, var, curvar, conflict.type))
  IN  IF confvar = 0 THEN <<>>
      ELSE [i \in 1..Len(kept) |->
             [desc |-> "explicit conflict",
              items |-> PrependAll(<<>>, <<Lit(var, TRUE), Lit(kept[i], TRUE)>>),
              attach |-> pkg_solve_add_var_rules(u, kept[i], 2, FALSE)
                         \o pkg_solve_add_var_rules(u, var, 2, FALSE)]]

\* the literals one provider adds: every member of the provider's chain
pkg_solve_handle_provide(u, un) ==
  LET chain == ChainFrom(u, variables_by_uid(u, u.chain[un]))
  IN  [i \in 1..Len(chain) |-> Lit(chain[i], FALSE)]

pkg_solve_add_require_rule(u, var, shlib) ==
  LET prhead == provides_of(u, shlib)
      lits == Flatten([i \in 1..Len(prhead) |-> pkg_solve_handle_provide(u, prhead[i])])
      cnt == 1 + Len(lits)
  IN  IF prhead = <<>> \/ cnt <= 1 THEN <<>>
      ELSE <<[desc |-> "provide",
              items |-> PrependAll(<<>>, <<Lit(var, TRUE)>> \o lits),
              attach |-> pkg_solve_add_var_rules(u, var, cnt, FALSE)]>>

pkg_solve_add_unary_rule(u, var, inverse) ==
  <<[desc |-> "unary request",
     items |-> PrependAll(<<>>, <<Lit(var, inverse)>>),
     attach |-> pkg_solve_add_var_rules(u, var, 1, FALSE)]>>

pkg_solve_add_chain_rule(u, var) ==
  LET rest == Tail(ChainFrom(u, var))
  IN  [i \in 1..Len(rest) |->
        [desc |-> "chain conflict",
         items |-> PrependAll(<<>>, <<Lit(var, TRUE), Lit(rest[i], TRUE)>>),
         attach |-> pkg_solve_add_var_rules(u, rest[i], 2, FALSE)
                    \o pkg_solve_add_var_rules(u, var, 2, FALSE)]]

\* the rules one variable of a chain contributes, in the order they are made;
\* the chain rule is added once, at the first variable that has a successor,
\* which is the head
rules_of_variable(u, cur_var) ==
  Flatten([i \in 1..Len(deps_of(u, cur_var)) |->
             pkg_solve_add_depend_rule(u, cur_var, deps_of(u, cur_var)[i])])
  \o Flatten([i \in 1..Len(conflicts_of(u, cur_var)) |->
             pkg_solve_add_conflict_rule(u, cur_var, conflicts_of(u, cur_var)[i])])
  \o (IF is_installed(u, cur_var) THEN <<>>
      ELSE Flatten([i \in 1..Len(shlibs_required(u, cur_var)) |->
             pkg_solve_add_require_rule(u, cur_var, shlibs_required(u, cur_var)[i])]))
  \o (IF request_add(u, cur_var) THEN pkg_solve_add_unary_rule(u, cur_var, FALSE) ELSE <<>>)
  \o (IF request_delete(u, cur_var) THEN pkg_solve_add_unary_rule(u, cur_var, TRUE) ELSE <<>>)
  \o (IF variables_by_uid(u, u.chain[cur_var]) = cur_var /\ ~chain_single(u, cur_var)
      THEN pkg_solve_add_chain_rule(u, cur_var) ELSE <<>>)

\* every chain in universe order, every variable of the chain in chain order:
\* chains are contiguous, so this is table order
pkg_solve_process_universe(u) ==
  Flatten([v \in 1..u.n |-> rules_of_variable(u, v)])

\* the rule references of var, newest first (LL_PREPEND), as rule numbers
var_rules(rules, var) ==
  Reverse(Flatten([r \in 1..Len(rules) |->
    [x \in 1..Len(SelectSeq(rules[r].attach, LAMBDA a : a.var = var)) |-> r]]))

RECURSIVE SumNrules(_)
SumNrules(as) == IF as = <<>> THEN 0 ELSE Head(as).nrules + SumNrules(Tail(as))

var_nrules(rules, var) ==
  SumNrules(Flatten([r \in 1..Len(rules) |-> SelectSeq(rules[r].attach, LAMBDA a : a.var = var)]))

\* the Problem after pkg_solve_jobs_to_sat: rules in the order made
pkg_solve_jobs_to_sat(u) ==
  LET rules == pkg_solve_process_universe(u)
  IN  [nvars |-> u.n,
       rules_count |-> Len(rules),
       rules |-> [r \in 1..Len(rules) |-> rules[r].items],
       desc |-> [r \in 1..Len(rules) |-> rules[r].desc],
       var_rules |-> [v \in 1..u.n |-> var_rules(rules, v)],
       nrules |-> [v \in 1..u.n |-> var_nrules(rules, v)]]

\* ------------------------------------------------------------------ state
VARIABLES
  univ,        \* the universe, the requests and the job type (j)
  problem,     \* the Problem built from it: rules, rule references, nrules
  variables,   \* per variable: to_install, resolved
  nresolved,   \* per rule: the nresolved counter kept in its head item
  pc,          \* where the caller is: built, units, dpll, sat, unsat, abort, done
  prop,        \* pkg_solve_propagate_units in progress: var, solved_vars, top_level, second
  dpll,        \* pkg_solve_sat_problem's locals: i, elt, solver_tree, backtrack, tvar, free_var, iters
  parse,       \* pkg_solve_parse_sat_output's locals: got_sat, done
  jobs,        \* j->jobs
  dimacs,      \* the file pkg_solve_dimacs_export wrote
  ret          \* what the calls that ended returned

vars == <<univ, problem, variables, nresolved, pc, prop, dpll, parse, jobs, dimacs, ret>>

\* --------------------------------------------------------------- propagation
PKG_SOLVE_CHECK_ITEM(V, it) == V[it.var].to_install # it.inverse

RuleNitems(P, r) == P.rules[r][1].nitems

\* pkg_solve_update_var_resolved: one increment per rule reference of var
RECURSIVE IncrementAll(_, _)
IncrementAll(N, refs) ==
  IF refs = <<>> THEN N
  ELSE IncrementAll([N EXCEPT ![Head(refs)] = @ + 1], Tail(refs))

pkg_solve_update_var_resolved(P, N, var) == IncrementAll(N, P.var_rules[var])

\* the loop that looks for a resolved item that holds
rule_has_true_item(P, V, r) ==
  \E k \in 1..Len(P.rules[r]) :
    V[P.rules[r][k].var].resolved /\ PKG_SOLVE_CHECK_ITEM(V, P.rules[r][k])

\* the first sweep without its search for an item that holds
direct_conflict_counted(P, V, N, var) ==
  \E k \in 1..Len(P.var_rules[var]) : N[P.var_rules[var][k]] = RuleNitems(P, P.var_rules[var][k])

\* first sweep over var's rules: a rule with every item counted resolved and none true
direct_conflict(P, V, N, var) ==
  \E k \in 1..Len(P.var_rules[var]) :
    LET r == P.var_rules[var][k]
    IN  N[r] = RuleNitems(P, r) /\ ~rule_has_true_item(P, V, r)

\* the second sweep with units recognised by the items themselves, not by
\* the counter: exactly one item unresolved and no resolved item true
unit_positions_by_items(P, V, N, var) ==
  {k \in 1..Len(P.var_rules[var]) :
    /\ Cardinality({m \in 1..Len(P.rules[P.var_rules[var][k]]) :
                      ~V[P.rules[P.var_rules[var][k]][m].var].resolved}) = 1
    /\ ~rule_has_true_item(P, V, P.var_rules[var][k])}

\* second sweep: the positions in var's rule list of the rules taken as units
unit_positions(P, V, N, var) ==
  {k \in 1..Len(P.var_rules[var]) :
    LET r == P.var_rules[var][k]
    IN  N[r] = RuleNitems(P, r) - 1 /\ ~rule_has_true_item(P, V, r)}

first_unit(P, V, N, var) ==
  P.var_rules[var][CHOOSE k \in unit_positions(P, V, N, var) :
                     \A m \in unit_positions(P, V, N, var) : k <= m]

\* a unit assignment that takes the head item of the rule, resolved or not
unit_item_head(P, V, r) == IF P.rules[r] = <<>> THEN 0 ELSE 1

\* the first item of the unit whose variable is not resolved, 0 when there is none
unit_item(P, V, r) ==
  IF \E k \in 1..Len(P.rules[r]) : ~V[P.rules[r][k].var].resolved
  THEN CHOOSE k \in 1..Len(P.rules[r]) :
         /\ ~V[P.rules[r][k].var].resolved
         /\ \A m \in 1..(k - 1) : V[P.rules[r][m].var].resolved
  ELSE 0

var_event(P, V, N, var) ==
  IF direct_conflict(P, V, N, var) THEN "conflict"
  ELSE IF unit_positions(P, V, N, var) # {} THEN "unit"
  ELSE "none"

\* the scan from variable `from` on: the first variable where something happens
next_event_var(P, V, N, from) ==
  IF \E v \in from..P.nvars : var_event(P, V, N, v) # "none"
  THEN CHOOSE v \in from..P.nvars :
         /\ var_event(P, V, N, v) # "none"
         /\ \A w \in from..(v - 1) : var_event(P, V, N, w) = "none"
  ELSE 0

\* where the scan stops next: at a variable of this pass, or of the pass after
\* it when this pass assigned something (do ... while (solved_vars > 0))
scan_stop(P, V, N, pr) ==
  IF next_event_var(P, V, N, pr.var) # 0 THEN next_event_var(P, V, N, pr.var)
  ELSE IF pr.solved_vars > 0 THEN next_event_var(P, V, N, 1)
  ELSE 0

\* ----------------------------------------------------------------- pure seed
\* the rules of one variable with a rule list, in list order
RECURSIVE pure_rules(_, _, _)
pure_rules(P, S, refs) ==
  IF refs = <<>> THEN S
  ELSE LET it == P.rules[Head(refs)][1]
       IN  IF it.nitems = 1 /\ S.N[Head(refs)] = 0
           THEN pure_rules(P,
                  [V |-> [S.V EXCEPT ![it.var] = [to_install |-> ~it.inverse, resolved |-> TRUE]],
                   N |-> pkg_solve_update_var_resolved(P, S.N, it.var)],
                  Tail(refs))
           ELSE pure_rules(P, S, Tail(refs))

RECURSIVE pure_from(_, _, _, _)
pure_from(u, P, S, var) ==
  IF var > P.nvars THEN S
  ELSE IF P.nrules[var] = 0
  THEN pure_from(u, P,
         [S EXCEPT !.V[var] = [to_install |-> is_installed(u, var), resolved |-> TRUE]],
         var + 1)
  ELSE pure_from(u, P, pure_rules(P, S, P.var_rules[var]), var + 1)

pkg_solve_propagate_pure(u, P, V, N) == pure_from(u, P, [V |-> V, N |-> N], 1)

\* ------------------------------------------------------------------ search
\* the heuristic without its upgrade case
initial_guess_installed(u, var) == is_installed(u, var)

pkg_solve_initial_guess(u, var) ==
  IF u.jtype = "upgrade"
  THEN IF is_installed(u, var) THEN chain_single(u, var) ELSE ~chain_single(u, var)
  ELSE is_installed(u, var)

\* every variable of the graph is unresolved again; the graph keeps its head
pkg_solve_undo_guess(V, graph) ==
  [v \in 1..Len(V) |->
     IF \E k \in 1..Len(graph) : graph[k] = v THEN [V[v] EXCEPT !.resolved = FALSE] ELSE V[v]]

NoProp == [var |-> 1, solved_vars |-> 0, top_level |-> TRUE, second |-> FALSE]
NoDpll == [i |-> 1, var |-> 0, elt |-> 0, solver_tree |-> <<>>, backtrack |-> FALSE,
           tvar |-> 0, free_var |-> FALSE, iters |-> 0]
NoParse == [got_sat |-> FALSE, done |-> FALSE]
NoRet == [solve |-> "none", to_jobs |-> "none", parse |-> "none", export |-> "none"]
NoFile == [written |-> FALSE, header |-> <<>>, clauses |-> <<>>]

\* the call of pkg_solve_sat_problem up to its first propagation run
SolveStart ==
  /\ pc = "built"
  /\ IF problem.rules_count = 0
     THEN /\ pc' = "sat"
          /\ ret' = [ret EXCEPT !.solve = "true"]
          /\ UNCHANGED <<variables, nresolved, prop>>
     ELSE LET S == pkg_solve_propagate_pure(univ, problem, variables, nresolved)
          IN  /\ variables' = S.V
              /\ nresolved' = S.N
              /\ pc' = "units"
              /\ prop' = NoProp
              /\ ret' = ret
  /\ UNCHANGED <<univ, problem, dimacs, dpll, parse, jobs>>

\* "Need to backtrack": both polarities of the frame's pivot failed
backtrack_or_unsat(V) ==
  IF dpll.elt = 1
  THEN /\ pc' = "unsat"
       /\ ret' = [ret EXCEPT !.solve = "false"]
       /\ dpll' = [dpll EXCEPT !.iters = @ + 1]
       /\ variables' = V
       /\ UNCHANGED prop
  ELSE /\ pc' = "dpll"
       /\ dpll' = [dpll EXCEPT !.iters = @ + 1,
                               !.solver_tree[dpll.elt] = [@ EXCEPT !.inverses = 0, !.graph = <<>>, !.guess = -1],
                               !.elt = dpll.elt - 1,
                               !.tvar = dpll.solver_tree[dpll.elt - 1].var,
                               !.backtrack = TRUE,
                               !.i = @ + 1]
       /\ variables' = V
       /\ UNCHANGED <<prop, ret>>

\* one run of the scan of pkg_solve_propagate_units up to the next thing it
\* does: a conflict (return false), a unit (an assignment, then check_again),
\* a failed assertion, or the end of a pass that assigned nothing (return
\* true); with what the caller does on return
PropagateUnits ==
  /\ pc = "units"
  /\ LET stop == scan_stop(problem, variables, nresolved, prop)
         wrapped == next_event_var(problem, variables, nresolved, prop.var) = 0
         event == IF stop = 0 THEN "none" ELSE var_event(problem, variables, nresolved, stop)
         r == first_unit(problem, variables, nresolved, stop)
         k == unit_item(problem, variables, r)
         it == problem.rules[r][k]
         undone == pkg_solve_undo_guess(variables, dpll.solver_tree[dpll.elt].graph)
     IN  CASE event = "none" ->
                IF prop.top_level
                THEN /\ pc' = "dpll"
                     /\ UNCHANGED <<variables, nresolved, prop, dpll, ret>>
                ELSE /\ pc' = "dpll"
                     /\ dpll' = [dpll EXCEPT !.solver_tree[dpll.elt].guess =
                                                IF variables[dpll.var].to_install THEN 1 ELSE 0,
                                             !.elt = IF dpll.elt < Len(dpll.solver_tree)
                                                     THEN dpll.elt + 1 ELSE 0,
                                             !.i = @ + 1]
                     /\ UNCHANGED <<variables, nresolved, prop, ret>>
           [] event = "conflict" ->
                IF prop.top_level
                THEN /\ pc' = "unsat"
                     /\ ret' = [ret EXCEPT !.solve = "false"]
                     /\ UNCHANGED <<variables, nresolved, prop, dpll>>
                ELSE IF ~prop.second /\ dpll.free_var
                THEN /\ variables' = [undone EXCEPT ![dpll.var].to_install = ~@]
                     /\ dpll' = [dpll EXCEPT !.solver_tree[dpll.elt].graph = SubSeq(@, 1, 1)]
                     /\ prop' = [NoProp EXCEPT !.top_level = FALSE, !.second = TRUE]
                     /\ UNCHANGED <<nresolved, pc, ret>>
                ELSE /\ backtrack_or_unsat(IF prop.second THEN variables ELSE undone)
                     /\ UNCHANGED nresolved
           [] event = "unit" ->
                IF k = 0
                THEN /\ pc' = "abort"
                     /\ ret' = [ret EXCEPT !.solve = "abort"]
                     /\ UNCHANGED <<variables, nresolved, prop, dpll>>
                ELSE /\ variables' = [variables EXCEPT ![it.var] =
                                        [to_install |-> ~it.inverse, resolved |-> TRUE]]
                     /\ nresolved' = pkg_solve_update_var_resolved(problem, nresolved, it.var)
                     /\ prop' = [prop EXCEPT !.var = stop,
                                            !.solved_vars = (IF wrapped THEN 0 ELSE @) + 1]
                     /\ dpll' = IF prop.top_level THEN dpll
                                ELSE [dpll EXCEPT !.solver_tree[dpll.elt].graph = Append(@, it.var)]
                     /\ UNCHANGED <<pc, ret>>
  /\ UNCHANGED <<univ, problem, dimacs, parse, jobs>>

\* the variables the for loop has still to visit that are not resolved
unresolved_from(V, i) == {v \in i..Len(V) : ~V[v].resolved}

\* the for loop reaches an unresolved variable: a guess, or the flip of one
DpllGuess ==
  /\ pc = "dpll"
  /\ unresolved_from(variables, dpll.i) # {}
  /\ LET at == CHOOSE v \in unresolved_from(variables, dpll.i) :
                 \A w \in unresolved_from(variables, dpll.i) : v <= w
         var == IF dpll.backtrack THEN dpll.tvar ELSE at
         i == IF dpll.backtrack THEN at - 1 ELSE at
         fresh == dpll.elt = 0
         tree == IF fresh
                 THEN Append(dpll.solver_tree, [var |-> var, guess |-> -1, inverses |-> 0, graph |-> <<>>])
                 ELSE dpll.solver_tree
         elt == IF fresh THEN Len(tree) ELSE dpll.elt
         free_var == tree[elt].guess = -1
         value == IF free_var THEN pkg_solve_initial_guess(univ, var) ELSE tree[elt].guess = 0
     IN  IF var # tree[elt].var
         THEN /\ pc' = "abort"
              /\ ret' = [ret EXCEPT !.solve = "abort"]
              /\ UNCHANGED <<variables, prop, dpll>>
         ELSE /\ variables' = [variables EXCEPT ![var] = [to_install |-> value, resolved |-> TRUE]]
              /\ dpll' = [dpll EXCEPT !.i = i, !.var = var, !.backtrack = FALSE, !.elt = elt,
                                      !.free_var = free_var,
                                      !.solver_tree = [tree EXCEPT ![elt].graph = Append(@, var),
                                                                   ![elt].inverses = IF free_var THEN @ ELSE @ + 1]]
              /\ prop' = [NoProp EXCEPT !.top_level = FALSE]
              /\ pc' = "units"
              /\ ret' = ret
  /\ UNCHANGED <<univ, problem, dimacs, nresolved, parse, jobs>>

\* the for loop ends: pkg_solve_sat_problem returns true
DpllReturn ==
  /\ pc = "dpll"
  /\ unresolved_from(variables, dpll.i) = {}
  /\ pc' = "sat"
  /\ ret' = [ret EXCEPT !.solve = "true"]
  /\ dpll' = [dpll EXCEPT !.solver_tree = <<>>, !.elt = 0]
  /\ UNCHANGED <<univ, problem, dimacs, variables, nresolved, prop, parse, jobs>>

\* --------------------------------------------------------------- job emitter
\* a variant of pkg_solve_insert_res_job whose second loop does not skip the
\* unit the upgrade record already removes
insert_res_job_all_dels(u, V, var) ==
  LET chain == ChainFrom(u, var)
      adds == SelectSeq(chain, LAMBDA c : V[c].to_install /\ ~is_installed(u, c))
      dels == SelectSeq(chain, LAMBDA c : ~V[c].to_install /\ is_installed(u, c))
      first == IF adds = <<>> THEN <<>>
               ELSE IF dels = <<>>
               THEN <<[type |-> IF u.jtype = "fetch" THEN "fetch" ELSE "install",
                       items |-> <<adds[Len(adds)]>>]>>
               ELSE <<[type |-> "upgrade", items |-> <<adds[Len(adds)], dels[Len(dels)]>>]>>
  IN  IF Len(adds) > 1 THEN <<>>
      ELSE first \o [x \in 1..Len(dels) |-> [type |-> "delete", items |-> <<dels[x]>>]]

\* a variant of pkg_solve_insert_res_job whose first loop keeps the first del
\* it meets (del_var is set once)
insert_res_job_first_del(u, V, var) ==
  LET chain == ChainFrom(u, var)
      adds == SelectSeq(chain, LAMBDA c : V[c].to_install /\ ~is_installed(u, c))
      dels == SelectSeq(chain, LAMBDA c : ~V[c].to_install /\ is_installed(u, c))
      first == IF adds = <<>> THEN <<>>
               ELSE IF dels = <<>>
               THEN <<[type |-> IF u.jtype = "fetch" THEN "fetch" ELSE "install",
                       items |-> <<adds[Len(adds)]>>]>>
               ELSE <<[type |-> "upgrade", items |-> <<adds[Len(adds)], dels[1]>>]>>
      rest == SelectSeq(dels, LAMBDA c : ~(adds # <<>> /\ c = dels[1]))
  IN  IF Len(adds) > 1 THEN <<>>
      ELSE first \o [x \in 1..Len(rest) |-> [type |-> "delete", items |-> <<rest[x]>>]]

\* the records one chain adds to j->jobs; a unit is named by its variable
pkg_solve_insert_res_job(u, V, var) ==
  LET chain == ChainFrom(u, var)
      adds == SelectSeq(chain, LAMBDA c : V[c].to_install /\ ~is_installed(u, c))
      dels == SelectSeq(chain, LAMBDA c : ~V[c].to_install /\ is_installed(u, c))
      seen_add == Len(adds)
      seen_del == Len(dels)
      add_var == adds[Len(adds)]
      del_var == dels[Len(dels)]
      first == IF seen_add = 0 THEN <<>>
               ELSE IF seen_del = 0
               THEN <<[type |-> IF u.jtype = "fetch" THEN "fetch" ELSE "install",
                       items |-> <<add_var>>]>>
               ELSE <<[type |-> "upgrade", items |-> <<add_var, del_var>>]>>
      rest == SelectSeq(dels, LAMBDA c : ~(seen_add > 0 /\ c = del_var))
  IN  IF seen_add > 1 THEN <<>>
      ELSE first \o [x \in 1..Len(rest) |-> [type |-> "delete", items |-> <<rest[x]>>]]

\* the chain heads, in the order of the variables_by_uid index
chain_heads(u) ==
  SelectSeq([i \in 1..u.n |-> i], LAMBDA v : variables_by_uid(u, u.chain[v]) = v)

RECURSIVE sat_to_jobs(_, _, _, _)
sat_to_jobs(u, V, heads, J) ==
  IF heads = <<>> THEN [ret |-> "EPKG_OK", jobs |-> J]
  ELSE IF ~V[Head(heads)].resolved THEN [ret |-> "EPKG_FATAL", jobs |-> J]
  ELSE sat_to_jobs(u, V, Tail(heads), J \o pkg_solve_insert_res_job(u, V, Head(heads)))

pkg_solve_sat_to_jobs(u, V, J) == sat_to_jobs(u, V, chain_heads(u), J)

\* the caller emits the jobs of a Problem that pkg_solve_sat_problem solved
ToJobs ==
  /\ pc = "sat"
  /\ LET res == pkg_solve_sat_to_jobs(univ, variables, jobs)
     IN  /\ jobs' = res.jobs
         /\ ret' = [ret EXCEPT !.to_jobs = res.ret]
  /\ pc' = "done"
  /\ UNCHANGED <<univ, problem, dimacs, variables, nresolved, prop, dpll, parse>>

\* ------------------------------------------------------------ DIMACS export
\* "Order variables": the ordinal of each variable of the table, cur_ord
\* counting from 1 in table order
RECURSIVE order_variables(_, _)
order_variables(ord, nvars) ==
  IF Len(ord) >= nvars THEN ord
  ELSE order_variables(Append(ord, Len(ord) + 1), nvars)

ordered_variables(P) == order_variables(<<>>, P.nvars)

\* HASH_FIND_INT(ordered_variables, &cur_ord, nord): the variable, 0 for none
find_order(ord, cur_ord) ==
  IF \E var \in 1..Len(ord) : ord[var] = cur_ord
  THEN CHOOSE var \in 1..Len(ord) : ord[var] = cur_ord
  ELSE 0

\* one clause line: the literals of the rule in item order, "-" when inverted
dimacs_clause(ord, items) ==
  [k \in 1..Len(items) |-> IF items[k].inverse THEN 0 - ord[items[k].var] ELSE ord[items[k].var]]

\* the file: the header p cnf nvars rules_count, then one line per rule of
\* problem->rules, which is newest first (LL_PREPEND)
pkg_solve_dimacs_export(P) ==
  [written |-> TRUE,
   header |-> <<P.nvars, P.rules_count>>,
   clauses |-> [x \in 1..Len(P.rules) |->
                 dimacs_clause(ordered_variables(P), Reverse(P.rules)[x])]]

\* the loop that orders the variables has no bound (PKG_SOLVE_VAR_NEXT never
\* yields NULL): past the end of the table its behaviour is undefined; the
\* call either goes on with the ordinals of the table or never returns
DimacsExport ==
  /\ pc = "built"
  /\ ~dimacs.written
  /\ \/ /\ dimacs' = pkg_solve_dimacs_export(problem)
        /\ ret' = [ret EXCEPT !.export = "EPKG_OK"]
        /\ pc' = pc
     \/ /\ pc' = "abort"
        /\ ret' = [ret EXCEPT !.export = "abort"]
        /\ dimacs' = dimacs
  /\ UNCHANGED <<univ, problem, variables, nresolved, prop, dpll, parse, jobs>>

\* ------------------------------------------------- external solver's output
\* a line of the output: "SAT...", "v " and tokens, or tokens alone; a token
\* is the integer strtol reads, its sign the token's first character
Tokens(n) == (0 - n)..n

TokenSeqs(n) == UNION {[1..m -> Tokens(n)] : m \in 0..MaxTokens}

Lines(n) ==
  {[kind |-> "SAT", toks |-> <<>>]}
  \cup [kind : {"v", "plain"}, toks : TokenSeqs(n)]

\* the do ... while over the tokens of one line: a 0 ends the line
RECURSIVE parse_tokens(_, _, _)
parse_tokens(S, toks, nvars) ==
  IF toks = <<>> THEN S
  ELSE LET t == Head(toks)
           cur_ord == IF t < 0 THEN 0 - t ELSE t
           nord == find_order(order_variables(<<>>, nvars), cur_ord)
       IN  IF cur_ord = 0 THEN [S EXCEPT !.done = TRUE]
           ELSE IF nord # 0
           THEN parse_tokens([S EXCEPT !.V[nord] = [to_install |-> t > 0, resolved |-> TRUE]],
                             Tail(toks), nvars)
           ELSE parse_tokens(S, Tail(toks), nvars)

\* one turn of the getline loop
parse_line(S, line, nvars) ==
  IF line.kind = "SAT" THEN [S EXCEPT !.got_sat = TRUE]
  ELSE IF S.got_sat \/ line.kind = "v" THEN parse_tokens(S, line.toks, nvars)
  ELSE S

\* the call of pkg_solve_parse_sat_output up to its getline loop: the same
\* unbounded loop orders the variables
ParseStart ==
  /\ pc = "built"
  /\ \/ /\ pc' = "parse"
        /\ ret' = ret
     \/ /\ pc' = "abort"
        /\ ret' = [ret EXCEPT !.parse = "abort"]
  /\ UNCHANGED <<univ, problem, dimacs, variables, nresolved, prop, dpll, parse, jobs>>

ParseLine ==
  /\ pc = "parse"
  /\ \E line \in Lines(univ.n) :
       LET S == parse_line([V |-> variables, got_sat |-> parse.got_sat, done |-> parse.done],
                           line, problem.nvars)
       IN  /\ variables' = S.V
           /\ parse' = [got_sat |-> S.got_sat, done |-> S.done]
  /\ pc' = "parse"
  /\ UNCHANGED <<univ, problem, dimacs, nresolved, prop, dpll, jobs, ret>>

\* end of the output: the jobs are emitted when a terminator was seen
ParseEnd ==
  /\ pc = "parse"
  /\ IF parse.done
     THEN LET res == pkg_solve_sat_to_jobs(univ, variables, jobs)
          IN  /\ jobs' = res.jobs
              /\ ret' = [ret EXCEPT !.to_jobs = res.ret, !.parse = res.ret]
     ELSE /\ jobs' = jobs
          /\ ret' = [ret EXCEPT !.parse = "EPKG_FATAL"]
  /\ pc' = "done"
  /\ UNCHANGED <<univ, problem, dimacs, variables, nresolved, prop, dpll, parse>>

\* ------------------------------------------------------------ specification
InitOf(maxrels, maxreqs) ==
  /\ IsUniverse(univ, maxrels, maxreqs)
  /\ problem = pkg_solve_jobs_to_sat(univ)
  /\ variables = [v \in 1..univ.n |-> [to_install |-> FALSE, resolved |-> FALSE]]
  /\ nresolved = [r \in 1..problem.rules_count |-> 0]
  /\ pc = "built"
  /\ prop = NoProp
  /\ dpll = NoDpll
  /\ parse = NoParse
  /\ jobs = <<>>
  /\ dimacs = NoFile
  /\ ret = NoRet

\* the internal solver on a Problem, then the job emitter
Init == InitOf(MaxRels, MaxReqs)

Next ==
  \/ SolveStart
  \/ PropagateUnits
  \/ DpllGuess
  \/ DpllReturn
  \/ ToJobs

Spec == Init /\ [][Next]_vars

\* a Problem that is either solved internally or handed an external
\* solver's output; the universes declare nothing and request nothing
\* (the reader of the output never looks at the rules)
InitImport == InitOf(0, 0)

NextImport ==
  \/ SolveStart
  \/ PropagateUnits
  \/ DpllGuess
  \/ DpllReturn
  \/ ToJobs
  \/ DimacsExport
  \/ ParseStart
  \/ ParseLine
  \/ ParseEnd

SpecImport == InitImport /\ [][NextImport]_vars

\* ------------------------------------------------------------------ claims
\* the item holds under the current assignment (to_install XOR inverse)
ItemHolds(it) == PKG_SOLVE_CHECK_ITEM(variables, it)

RuleHolds(r) == \E k \in 1..Len(problem.rules[r]) : ItemHolds(problem.rules[r][k])

\* pkg_solve_sat_problem has returned true
SolvedTrue == ret.solve = "true"

\* some assignment of the variables satisfies every rule of the Problem
Satisfiable ==
  \E a \in [1..problem.nvars -> BOOLEAN] :
    \A r \in 1..problem.rules_count :
      \E k \in 1..Len(problem.rules[r]) : a[problem.rules[r][k].var] # problem.rules[r][k].inverse

\* the members of the chain of v that are to be installed and are not installed
AddCandidates(v) ==
  {w \in 1..univ.n : univ.chain[w] = univ.chain[v] /\ variables[w].to_install /\ ~is_installed(univ, w)}

\* the number of items of rule r whose variable is resolved
ResolvedItems(r) ==
  Cardinality({k \in 1..Len(problem.rules[r]) : variables[problem.rules[r][k].var].resolved})

Requires(v) == shlibs_required(univ, v) # <<>>

\* (C1) Soundness of SAT: when solve has returned true, every rule of the
\* Problem has an item that holds under the final assignment.
C1_SatSound == SolvedTrue => \A r \in 1..problem.rules_count : RuleHolds(r)

\* (C2) Completeness of UNSAT: solve never returns true on a Problem whose
\* rules no assignment satisfies.
C2_UnsatComplete == SolvedTrue => Satisfiable

\* (C3) Chain mutex: after solve returned true, no chain has two members that
\* are to be installed and are not installed.
C3_ChainMutex == SolvedTrue => \A v \in 1..univ.n : Cardinality(AddCandidates(v)) <= 1

\* (C4) Counter invariant: between the steps of solve, nresolved of every rule
\* is the number of its items whose variable is resolved.
C4_CounterInvariant ==
  pc \in {"units", "dpll", "sat"} =>
    \A r \in 1..problem.rules_count : nresolved[r] = ResolvedItems(r)

\* (C6) Shared-library requirement: after solve returned true, a remote
\* variable that is to be installed and requires a shlib with a provider has
\* a chain member of some provider that is to be installed.
C6_ShlibHonoured ==
  SolvedTrue =>
    \A v \in 1..univ.n :
      (~is_installed(univ, v) /\ variables[v].to_install /\ Requires(v) /\ univ.prov # {}) =>
        \E p \in univ.prov : \E w \in 1..univ.n :
          univ.chain[w] = univ.chain[p] /\ variables[w].to_install

\* (C7) Requests are honoured: after solve returned true every install
\* request is to be installed and every delete request is not; and a call of
\* solve on a Problem with a variable requested both ways ends by returning
\* false.
C7_RequestsHonoured ==
  /\ SolvedTrue =>
       \A v \in 1..univ.n :
         /\ request_add(univ, v) => variables[v].to_install
         /\ request_delete(univ, v) => ~variables[v].to_install
  /\ (ret.solve # "none" /\ \E v \in 1..univ.n : request_add(univ, v) /\ request_delete(univ, v))
       => ret.solve = "false"

\* (C8) Independent packages keep their state: after solve returned true
\* every variable with nrules = 0 is resolved to its unit's installed state,
\* and to_jobs then returns EPKG_OK with no record naming it.
C8_IndependentKept ==
  SolvedTrue =>
    \A v \in 1..univ.n :
      problem.nrules[v] = 0 =>
        /\ variables[v].resolved
        /\ variables[v].to_install = is_installed(univ, v)
        /\ pc = "done" =>
             /\ ret.to_jobs = "EPKG_OK"
             /\ \A x \in 1..Len(jobs) : \A y \in 1..Len(jobs[x].items) : jobs[x].items[y] # v

\* the calls of the propagation made by the search find nothing to do: no
\* conflict and no unit (so pkg_solve_undo_guess, the flip of a guess and
\* the backtrack are never reached)
SearchPropagationInert ==
  (pc = "units" /\ ~prop.top_level) => scan_stop(problem, variables, nresolved, prop) = 0

\* V is an install request with a dependency on a unique id whose chain has
\* the one candidate D1
S4Pairs ==
  {p \in (1..univ.n) \X (1..univ.n) :
     /\ request_add(univ, p[1])
     /\ chain_single(univ, p[2])
     /\ [t |-> "dep", u |-> p[1], uid |-> univ.chain[p[2]], kind |-> ""] \in univ.rels}

\* the top-level propagation of solve has returned true
TopLevelDone ==
  \/ pc = "dpll"
  \/ pc = "units" /\ ~prop.top_level
  \/ SolvedTrue /\ problem.rules_count > 0

\* to_jobs has run on the Problem that solve solved
JobsEmitted == pc = "done" /\ SolvedTrue

ForcedTrue(v) == variables[v].resolved /\ variables[v].to_install

HasRecord(v, kind) ==
  \E x \in 1..Len(jobs) : jobs[x].type = kind /\ jobs[x].items[1] = v

DelCandidates(v) ==
  {w \in 1..univ.n : univ.chain[w] = univ.chain[v] /\ ~variables[w].to_install /\ is_installed(univ, w)}

\* the kind of the record of a chain with one add candidate
RecordKind(v) ==
  IF DelCandidates(v) # {} THEN "upgrade"
  ELSE IF univ.jtype = "fetch" THEN "fetch" ELSE "install"

C10_UnresolvedIsFatal ==
  (ret.to_jobs # "none" /\ \E v \in 1..univ.n : ~variables[v].resolved)
    => ret.to_jobs = "EPKG_FATAL"

\* ------------------------------------------------------------ job emission
\* pkg_solve_sat_to_jobs has returned
EmitDone == pc = "done" /\ ret.to_jobs # "none"

\* the chains the call has emitted: those before the first unresolved head
ProcessedHeads ==
  {h \in 1..univ.n :
     /\ variables_by_uid(univ, univ.chain[h]) = h
     /\ \A g \in 1..h : variables_by_uid(univ, univ.chain[g]) = g => variables[g].resolved}

ChainSet(h) == {w \in 1..univ.n : univ.chain[w] = univ.chain[h]}

\* the adds and the dels of a chain, in chain order
Adds(h) ==
  SelectSeq(ChainFrom(univ, h), LAMBDA c : variables[c].to_install /\ ~is_installed(univ, c))

Dels(h) ==
  SelectSeq(ChainFrom(univ, h), LAMBDA c : ~variables[c].to_install /\ is_installed(univ, c))

\* the records of the job plan whose first item is a unit of the chain
RecordsOf(h) == SelectSeq(jobs, LAMBDA rec : rec.items[1] \in ChainSet(h))

RecordsOfType(h, type) == SelectSeq(RecordsOf(h), LAMBDA rec : rec.type = type)

InstallKind == IF univ.jtype = "fetch" THEN "fetch" ELSE "install"

\* (C11) Job emission per chain: for a chain that to_jobs has emitted, with a
\* adds and d dels and a <= 1: one install record (fetch for a fetch job)
\* naming the add when a = 1 and d = 0; one upgrade record naming the add and
\* d - 1 delete records when a = 1 and d >= 1; d delete records, one per del,
\* when a = 0 and d >= 1; no record when a = 0 and d = 0.
C11_JobEmission ==
  EmitDone =>
    \A h \in ProcessedHeads :
      LET a == Len(Adds(h))
          d == Len(Dels(h))
          recs == RecordsOf(h)
      IN  a <= 1 =>
            /\ (a = 1 /\ d = 0) =>
                 recs = <<[type |-> InstallKind, items |-> <<Adds(h)[1]>>]>>
            /\ (a = 1 /\ d >= 1) =>
                 /\ Len(RecordsOfType(h, "upgrade")) = 1
                 /\ RecordsOfType(h, "upgrade")[1].items[1] = Adds(h)[1]
                 /\ Len(RecordsOfType(h, "delete")) = d - 1
                 /\ Len(recs) = d
            /\ (a = 0 /\ d >= 1) =>
                 /\ Len(recs) = d
                 /\ \A x \in 1..d : recs[x].type = "delete"
                 /\ {recs[x].items[1] : x \in 1..d} = {Dels(h)[x] : x \in 1..d}
            /\ (a = 0 /\ d = 0) => recs = <<>>

\* the case of C11: the jobs of a chain with one add and two dels
C11_Witness ==
  /\ EmitDone
  /\ \E h \in ProcessedHeads :
       /\ Len(Adds(h)) = 1
       /\ Len(Dels(h)) = 2
       /\ Len(RecordsOf(h)) = 2

\* the units the delete records of the chain remove
DeletedBy(h) ==
  {RecordsOfType(h, "delete")[x].items[1] : x \in 1..Len(RecordsOfType(h, "delete"))}

\* (C12, as stated) Upgrade pairing: for an emitted chain with one add and
\* two or more dels, the upgrade record's items[1] is the first del in chain
\* order and the delete records cover exactly the later dels.
C12_FirstDelPaired ==
  EmitDone =>
    \A h \in ProcessedHeads :
      (Len(Adds(h)) = 1 /\ Len(Dels(h)) >= 2) =>
        /\ Len(RecordsOfType(h, "upgrade")) = 1
        /\ RecordsOfType(h, "upgrade")[1].items[2] = Dels(h)[1]
        /\ DeletedBy(h) = {Dels(h)[x] : x \in 2..Len(Dels(h))}

\* (C12, amended) Upgrade pairing: for an emitted chain with one add and two
\* or more dels, the upgrade record's items[1] is the last del in chain order
\* and the delete records cover exactly the earlier dels.
C12_LastDelPaired ==
  EmitDone =>
    \A h \in ProcessedHeads :
      (Len(Adds(h)) = 1 /\ Len(Dels(h)) >= 2) =>
        /\ Len(RecordsOfType(h, "upgrade")) = 1
        /\ RecordsOfType(h, "upgrade")[1].items[2] = Dels(h)[Len(Dels(h))]
        /\ DeletedBy(h) = {Dels(h)[x] : x \in 1..(Len(Dels(h)) - 1)}

\* the case of C12: an upgrade record that pairs the add with the second of
\* two dels, the first being deleted
C12_Witness ==
  /\ EmitDone
  /\ \E h \in ProcessedHeads :
       /\ Len(Adds(h)) = 1
       /\ Len(Dels(h)) = 2
       /\ RecordsOfType(h, "upgrade")[1].items = <<Adds(h)[1], Dels(h)[2]>>
       /\ DeletedBy(h) = {Dels(h)[1]}

\* (C13) Internal-error outcome: when to_jobs has returned and some chain has
\* more than one add candidate, the job plan has no record for that chain and
\* the call did not return EPKG_OK.
C13_TwoAddsFail ==
  EmitDone =>
    \A h \in 1..univ.n :
      (variables_by_uid(univ, univ.chain[h]) = h /\ Len(Adds(h)) > 1) =>
        /\ RecordsOf(h) = <<>>
        /\ ret.to_jobs # "EPKG_OK"

\* the units a record names (items[0], and items[1] of an upgrade record)
ItemsOf(rec) == {rec.items[y] : y \in 1..Len(rec.items)}

\* (C14) Job plan consistency: in the list one to_jobs call has emitted,
\* every item of every record is a unit of the universe, the two items of an
\* upgrade record differ, and no unit is named by two distinct records.
C14_PlanConsistent ==
  EmitDone =>
    /\ \A x \in 1..Len(jobs) :
         /\ ItemsOf(jobs[x]) \subseteq 1..univ.n
         /\ Cardinality(ItemsOf(jobs[x])) = Len(jobs[x].items)
    /\ \A x, y \in 1..Len(jobs) : x # y => ItemsOf(jobs[x]) \cap ItemsOf(jobs[y]) = {}

\* the case of C14: a plan of several records, one of them an upgrade record
\* and another a delete record of the same chain
C14_Witness ==
  /\ EmitDone
  /\ \E x, y \in 1..Len(jobs) :
       /\ jobs[x].type = "upgrade"
       /\ jobs[y].type = "delete"
       /\ univ.chain[jobs[x].items[1]] = univ.chain[jobs[y].items[1]]

\* (C15) Import terminator: once the import has read a 0 token, no later
\* token of the output, on the same line or on a later line, changes resolved
\* or to_install of any variable.
C15_TerminatorEnds == [][parse.done => variables' = variables]_vars

\* ---------------------------------------------------------- DIMACS round trip
\* the output of a solver that echoes the internal assignment: a SAT line,
\* then every ordinal of the exported file signed by the to_install of its
\* variable, then 0
EchoTokens ==
  [o \in 1..dimacs.header[1] |->
     IF variables[find_order(ordered_variables(problem), o)].to_install THEN o ELSE 0 - o]
  \o <<0>>

\* the import of that output into the Problem as built, and its job plan
EchoImported ==
  parse_line(parse_line([V |-> [v \in 1..univ.n |-> [to_install |-> FALSE, resolved |-> FALSE]],
                         got_sat |-> FALSE, done |-> FALSE],
                        [kind |-> "SAT", toks |-> <<>>], problem.nvars),
             [kind |-> "plain", toks |-> EchoTokens], problem.nvars)

EchoPlan ==
  IF EchoImported.done THEN pkg_solve_sat_to_jobs(univ, EchoImported.V, <<>>).jobs ELSE <<>>

\* (C16) DIMACS round trip: for a Problem the internal solver solved and that
\* was exported, importing the echo of the internal assignment yields the job
\* plan that to_jobs made of the internally solved Problem.
C16_RoundTrip ==
  (pc = "done" /\ SolvedTrue /\ dimacs.written) => EchoPlan = jobs

\* -------------------------------------------------------------- initial guess
\* the value the heuristic is stated to give variable v
StatedGuess(v) ==
  IF univ.jtype = "upgrade"
  THEN \/ univ.inst[v] /\ ~(\E w \in 1..univ.n : w # v /\ univ.chain[w] = univ.chain[v])
       \/ ~univ.inst[v] /\ (\E w \in 1..univ.n : w # v /\ univ.chain[w] = univ.chain[v])
  ELSE univ.inst[v]

\* the search has just made a first guess for dpll.var
FreshGuess == pc = "units" /\ ~prop.top_level /\ dpll.var # 0 /\ dpll.free_var

\* scenario S3: A-1 installed and A-2 remote in one chain, upgrade, no requests
IsS3 ==
  /\ univ.n = 2
  /\ univ.chain[1] = univ.chain[2]
  /\ univ.inst = <<TRUE, FALSE>>
  /\ univ.jtype = "upgrade"
  /\ univ.reqs = {}

SolvedFalse == ret.solve = "false"

\* (C18) Soundness of UNSAT: when solve has returned false, no assignment of
\* the variables satisfies every rule of the Problem.
C18_UnsatSound == SolvedFalse => ~Satisfiable

C18_Witness == SolvedFalse /\ problem.rules_count > 0 /\ ~Satisfiable

\* ---------------------------------------------------------------- termination
SolveRunning == pc \in {"units", "dpll"}

\* the steps a running call of solve has taken are bounded by this rank, which
\* every step of the call raises
SolveRank ==
  3 * Cardinality({v \in 1..univ.n : variables[v].resolved})
    + (IF pc = "units" THEN 0 ELSE IF pc = "dpll" THEN 1 ELSE 2)

\* (C19) Termination: a call of solve that has stopped running has returned
\* true (SAT) or false (UNSAT).
C19_SolveReturns == (~SolveRunning /\ pc # "built") => ret.solve \in {"none", "true", "false"}

\* every step of a running call raises the rank
C19_Progress == [][SolveRunning => SolveRank' > SolveRank]_vars

\* ----------------------------------------------------------- guess propagation
\* rule r has exactly one item whose variable is unresolved, and none of its
\* resolved items holds
PendingUnit(r) ==
  /\ Cardinality({k \in 1..Len(problem.rules[r]) : ~variables[problem.rules[r][k].var].resolved}) = 1
  /\ \A k \in 1..Len(problem.rules[r]) :
       variables[problem.rules[r][k].var].resolved => ~ItemHolds(problem.rules[r][k])

\* the propagation that follows a guess or a flip has returned true
FramePropagated == pc = "dpll" /\ dpll.var # 0

\* (C20) Guess propagation: when the propagation of a frame has returned after
\* a guess or flip, no rule is left with exactly one unresolved literal and all
\* its resolved literals unsatisfied: each such rule was taken as a unit and
\* its literal assigned.
C20_GuessPropagated == FramePropagated => \A r \in 1..problem.rules_count : ~PendingUnit(r)

\* ------------------------------------------------------------------ rule count
\* (C21) Rule-count invariant: after build, the nrules of every variable is
\* the number of clause references in its rules list.
C21_RuleCount == \A v \in 1..problem.nvars : problem.nrules[v] = Len(problem.var_rules[v])

\* ----------------------------------------------------------------- clause emit
\* the items of rule r refer to pairwise distinct variables
DistinctVars(r) ==
  \A k, m \in 1..Len(problem.rules[r]) :
    problem.rules[r][k].var = problem.rules[r][m].var => k = m

\* (C22) Clause-emit invariants: every clause build has produced has items
\* that refer to pairwise distinct variables, a head item whose nitems is the
\* number of its items, and nresolved 0.
C22_ClauseEmit ==
  pc = "built" =>
    \A r \in 1..problem.rules_count :
      /\ DistinctVars(r)
      /\ problem.rules[r][1].nitems = Len(problem.rules[r])
      /\ nresolved[r] = 0

\* the two invariants of a built clause that do not concern distinctness
C22_CountsOnly ==
  pc = "built" =>
    \A r \in 1..problem.rules_count :
      problem.rules[r][1].nitems = Len(problem.rules[r]) /\ nresolved[r] = 0

\* --------------------------------------------------------- dangling dependency
\* v declares a dependency on a unique id that has no chain in the universe
Dangling(v) == [t |-> "dep", u |-> v, uid |-> 0, kind |-> ""] \in univ.rels

\* the dependency rules build made for v: its own item is the last of the list
DependRulesOf(v) ==
  {r \in 1..problem.rules_count :
     problem.desc[r] = "dependency" /\ problem.rules[r][Len(problem.rules[r])].var = v}

\* build made one dependency rule for each dependency of v that has a chain,
\* and none for a dangling one
C23_NoClause ==
  \A v \in 1..univ.n :
    Cardinality(DependRulesOf(v)) =
      Cardinality({d \in 1..NChains(univ.chain) : [t |-> "dep", u |-> v, uid |-> d, kind |-> ""] \in univ.rels})

\* (C23) Dangling dependency: build emits no clause for a dependency on a
\* unique id without a chain, and when the depending variable is forced true
\* by an install request, solve returns false.
C23_DanglingUnsat ==
  /\ C23_NoClause
  /\ \A v \in 1..univ.n :
       (Dangling(v) /\ request_add(univ, v) /\ ret.solve # "none") => ret.solve = "false"

\* ------------------------------------------------------------------ failed emit
\* (C24) Emit fails as a whole: when to_jobs has returned FATAL, the job list
\* holds no record.
C24_EmitAllOrNothing == ret.to_jobs = "EPKG_FATAL" => jobs = <<>>

\* --------------------------------------------------------------- unit assertion
\* the scan of the running propagation stops next at a rule it takes as a unit
UnitClassified ==
  /\ pc = "units"
  /\ scan_stop(problem, variables, nresolved, prop) # 0
  /\ var_event(problem, variables, nresolved, scan_stop(problem, variables, nresolved, prop)) = "unit"

\* the rule the scan takes as a unit
ClassifiedUnit ==
  first_unit(problem, variables, nresolved, scan_stop(problem, variables, nresolved, prop))

\* (C25) Unit assertion: whenever unit propagation takes a rule as a unit, the
\* rule has an item whose variable is unresolved, so assert(resolved > 0)
\* does not fail.
C25_UnitAssertion ==
  UnitClassified => unit_item(problem, variables, ClassifiedUnit) # 0

\* ------------------------------------------------------------------- the search
\* the search of solve is running: the for loop, or a propagation it called
InSearch == pc = "dpll" \/ (pc = "units" /\ ~prop.top_level)

\* no propagation of the search has a conflict or a unit before it, no guess
\* was flipped, no frame was backtracked to, every frame's graph holds at most
\* its pivot; a solve that reached the search returned true, and a solve of a
\* Problem with a clause that returned true resolved every variable
C26_SearchState ==
  /\ (pc = "units" /\ ~prop.top_level) => scan_stop(problem, variables, nresolved, prop) = 0
  /\ ~prop.second
  /\ ~dpll.backtrack
  /\ \A e \in 1..Len(dpll.solver_tree) :
       dpll.solver_tree[e].inverses = 0 /\ Len(dpll.solver_tree[e].graph) <= 1
  /\ (dpll.var # 0 /\ ret.solve # "none") => SolvedTrue
  /\ (SolvedTrue /\ problem.rules_count > 0) => \A v \in 1..univ.n : variables[v].resolved

\* a step of the search changes a variable only from unresolved to resolved
\* with its initial-guess polarity
C26_SearchStep ==
  InSearch =>
    \A v \in 1..univ.n :
      variables'[v] # variables[v] =>
        /\ ~variables[v].resolved
        /\ variables'[v] = [to_install |-> pkg_solve_initial_guess(univ, v), resolved |-> TRUE]

\* (C26) Search never backtracks: once the pure seed and the top-level
\* propagation have succeeded, no propagation after a guess reports a conflict
\* or assigns a variable, no guess is undone or flipped, no frame is
\* backtracked to, and solve returns true with every remaining variable at its
\* initial-guess polarity.
C26_NeverBacktracks == []C26_SearchState /\ [][C26_SearchStep]_vars

\* solve returned true from the search although a rule does not hold
C26_Witness ==
  /\ SolvedTrue
  /\ dpll.var # 0
  /\ \E r \in 1..problem.rules_count : ~RuleHolds(r)

\* ------------------------------------------------------------ frozen assignments
\* v is in the implication graph of some frame of the search
InGraph(v) ==
  \E e \in 1..Len(dpll.solver_tree) :
    \E k \in 1..Len(dpll.solver_tree[e].graph) : dpll.solver_tree[e].graph[k] = v

\* v was resolved by the pure seed or by the top-level propagation
TopLevelResolved(v) == variables[v].resolved /\ ~InGraph(v)

\* (C27) Top-level assignments are frozen: while solve runs, a variable that
\* the pure seed or the top-level propagation resolved keeps resolved and its
\* to_install in the next state; the search changes only the other variables.
C27_TopLevelFrozen ==
  [][SolveRunning =>
       \A v \in 1..univ.n : TopLevelResolved(v) => variables'[v] = variables[v]]_vars

\* the search has guessed a variable while another one, with rules, was
\* resolved at top level
C27_Witness ==
  /\ pc = "dpll"
  /\ dpll.var # 0
  /\ \E v \in 1..univ.n : TopLevelResolved(v) /\ problem.nrules[v] # 0 /\ v # dpll.var

====
